---- MODULE Spec2Model ----
(***************************************************************************)
(* A model of the HTTP server library of src/src/lib.rs: the registration  *)
(* surface (register_endpoint, serve), the per-connection handling         *)
(* (handle_socket, handle_request) and the response builder                *)
(* (Server::respond).                                                      *)
(*                                                                         *)
(* Strings and byte buffers are sequences of one-character strings; the    *)
(* symbols NUL, BAD and REPL stand for the zero byte, a byte that is not   *)
(* valid UTF-8 and the replacement character U+FFFD.                       *)
(***************************************************************************)
EXTENDS Naturals, Sequences, FiniteSets, TLC

\* --------------------------------------------------------------- bounds
\* The size of the request buffer, lib.rs:10 (102400 there), scaled down.
MAX_REQUEST_SIZE == 56
\* How many endpoints and how many static directories the registry holds.
MaxEndpoints == 2
MaxStaticDirectories == 2
\* How many headers a caller of Server::respond passes.
MaxCallerHeaders == 2

\* ----------------------------------------------------------- characters
NUL == "NUL"
BAD == "xFF"
REPL == "U+FFFD"
CR == "\r"
LF == "\n"
SP == " "
CRLF == <<CR, LF>>

None == <<>>
Some(x) == <<x>>

Min(a, b) == IF a < b THEN a ELSE b

\* ------------------------------------------------------ string library
\* str::starts_with
StartsWith(s, p) == Len(p) <= Len(s) /\ SubSeq(s, 1, Len(p)) = p

\* str::ends_with
EndsWith(s, p) == Len(p) <= Len(s) /\ SubSeq(s, Len(s) - Len(p) + 1, Len(s)) = p

\* &s[n..] : the string from byte offset n (0-based) on
From(s, n) == SubSeq(s, n + 1, Len(s))

\* The 1-based position of the first occurrence of sep in s at or after
\* position i, 0 when there is none.
RECURSIVE FindFrom(_, _, _)
FindFrom(s, sep, i) ==
    IF i + Len(sep) - 1 > Len(s) THEN 0
    ELSE IF SubSeq(s, i, i + Len(sep) - 1) = sep THEN i
    ELSE FindFrom(s, sep, i + 1)

Find(s, sep) == FindFrom(s, sep, 1)

\* str::split(sep).collect(): the pieces between the occurrences of sep,
\* empty pieces included; never an empty list.
RECURSIVE Split(_, _)
SplitAt(s, sep, at) ==
    IF at = 0 THEN <<s>>
    ELSE <<SubSeq(s, 1, at - 1)>> \o Split(From(s, at - 1 + Len(sep)), sep)

Split(s, sep) == SplitAt(s, sep, Find(s, sep))

\* Iterator::filter(|s| s.len() > 0)
NonEmptyOnly(parts) == SelectSeq(parts, LAMBDA p : Len(p) > 0)

\* char::is_whitespace, on the characters of the model
IsWhitespace(ch) == ch \in {SP, "\t", CR, LF}

\* str::trim
RECURSIVE TrimStart(_)
TrimStart(s) ==
    IF s # <<>> /\ IsWhitespace(Head(s)) THEN TrimStart(Tail(s)) ELSE s

RECURSIVE TrimEnd(_)
TrimEnd(s) ==
    IF s # <<>> /\ IsWhitespace(s[Len(s)]) THEN TrimEnd(SubSeq(s, 1, Len(s) - 1)) ELSE s

Trim(s) == TrimEnd(TrimStart(s))

Upper == <<"A", "B", "C", "D", "E", "F", "G", "H", "I", "J", "K", "L", "M",
           "N", "O", "P", "Q", "R", "S", "T", "U", "V", "W", "X", "Y", "Z">>
Lower == <<"a", "b", "c", "d", "e", "f", "g", "h", "i", "j", "k", "l", "m",
           "n", "o", "p", "q", "r", "s", "t", "u", "v", "w", "x", "y", "z">>

\* str::to_lowercase
ToLowercase(s) ==
    [i \in 1..Len(s) |->
        IF \E k \in 1..26 : Upper[k] = s[i]
        THEN Lower[CHOOSE k \in 1..26 : Upper[k] = s[i]]
        ELSE s[i]]

\* String::from_utf8_lossy: a byte that is not valid UTF-8 becomes U+FFFD
FromUtf8Lossy(bytes) ==
    [i \in 1..Len(bytes) |-> IF bytes[i] = BAD THEN REPL ELSE bytes[i]]

Digit == <<"0", "1", "2", "3", "4", "5", "6", "7", "8", "9">>
IsDigit(ch) == \E d \in 1..10 : Digit[d] = ch
DigitValue(ch) == (CHOOSE d \in 1..10 : Digit[d] = ch) - 1

\* usize::to_string / u16::to_string
RECURSIVE UsizeToString(_)
UsizeToString(n) ==
    IF n < 10 THEN <<Digit[n + 1]>>
    ELSE UsizeToString(n \div 10) \o <<Digit[(n % 10) + 1]>>

RECURSIVE DecimalValue(_)
DecimalValue(s) ==
    IF s = <<>> THEN 0
    ELSE 10 * DecimalValue(SubSeq(s, 1, Len(s) - 1)) + DigitValue(s[Len(s)])

\* str::parse::<usize>(): Some(n) for an optional '+' and one or more
\* digits, None otherwise.
ParseUsize(s) ==
    LET digits == IF s # <<>> /\ Head(s) = "+" THEN Tail(s) ELSE s
    IN  IF digits # <<>> /\ \A i \in 1..Len(digits) : IsDigit(digits[i])
        THEN Some(DecimalValue(digits))
        ELSE None

\* [x].join(sep)
RECURSIVE Join(_, _)
Join(parts, sep) ==
    IF parts = <<>> THEN <<>>
    ELSE IF Len(parts) = 1 THEN parts[1]
    ELSE parts[1] \o sep \o Join(Tail(parts), sep)

\* The orders in which a HashMap with key set S can be iterated.
Orders(S) ==
    {o \in [1..Cardinality(S) -> S] : \A i, j \in 1..Cardinality(S) : i # j => o[i] # o[j]}

\* HashMap::insert
Insert(m, k, v) == [x \in (DOMAIN m) \cup {k} |-> IF x = k THEN v ELSE m[x]]

EmptyMap == [x \in {} |-> <<>>]

\* The byte length of a string (str::len): U+FFFD takes three bytes.
RECURSIVE ByteLen(_)
ByteLen(s) ==
    IF s = <<>> THEN 0
    ELSE (IF Head(s) = REPL THEN 3 ELSE 1) + ByteLen(Tail(s))

\* ------------------------------------------------------------- literals
HTTP11 == <<"H", "T", "T", "P", "/", "1", ".", "1">>
OK == <<"O", "K">>
Created == <<"C", "r", "e", "a", "t", "e", "d">>
BadRequest == <<"B", "a", "d", " ", "R", "e", "q", "u", "e", "s", "t">>
Unauthorized == <<"U", "n", "a", "u", "t", "h", "o", "r", "i", "z", "e", "d">>
Forbidden == <<"F", "o", "r", "b", "i", "d", "d", "e", "n">>
NotFound == <<"N", "o", "t", " ", "F", "o", "u", "n", "d">>
Unknown == <<"U", "n", "k", "n", "o", "w", "n">>
ContentType == <<"C", "o", "n", "t", "e", "n", "t", "-", "T", "y", "p", "e">>
ContentLength == <<"C", "o", "n", "t", "e", "n", "t", "-", "L", "e", "n", "g", "t", "h">>
content_length == <<"c", "o", "n", "t", "e", "n", "t", "-", "l", "e", "n", "g", "t", "h">>
TextPlain == <<"t", "e", "x", "t", "/", "p", "l", "a", "i", "n">>
TextHtml == <<"t", "e", "x", "t", "/", "h", "t", "m", "l">>
TextCss == <<"t", "e", "x", "t", "/", "c", "s", "s">>
TextJavascript == <<"t", "e", "x", "t", "/", "j", "a", "v", "a", "s", "c", "r", "i", "p", "t">>
ImagePng == <<"i", "m", "a", "g", "e", "/", "p", "n", "g">>
OctetStream == <<"a", "p", "p", "l", "i", "c", "a", "t", "i", "o", "n", "/",
                 "o", "c", "t", "e", "t", "-", "s", "t", "r", "e", "a", "m">>

\* ------------------------------------------------------ Server::respond
\* The reason phrase of a status code.
StatusMessage(status_code) ==
    CASE status_code = 200 -> OK
      [] status_code = 201 -> Created
      [] status_code = 400 -> BadRequest
      [] status_code = 401 -> Unauthorized
      [] status_code = 403 -> Forbidden
      [] status_code = 404 -> NotFound
      [] OTHER -> Unknown

\* Option::unwrap_or
UnwrapOr(opt, default) == IF opt = None THEN default ELSE opt[1]

\* header_map.insert(k, v): v is stored whether or not k has a value.
OrInsert_Overwrite(m, k, v) == Insert(m, k, v)

\* header_map.entry(k).or_insert(v): v is stored only when k has no value.
OrInsert(m, k, v) == IF k \in DOMAIN m THEN m ELSE Insert(m, k, v)

\* The header map respond renders: the caller's headers and, for a
\* non-empty body, the two defaults.
HeaderMap(body, headers) ==
    LET body_string == UnwrapOr(body, <<>>)
        header_map  == UnwrapOr(headers, EmptyMap)
    IN  IF body_string # <<>>
        THEN OrInsert(OrInsert(header_map, ContentType, TextPlain),
                      ContentLength, UsizeToString(ByteLen(body_string)))
        ELSE header_map

HeaderLine(k, v) == k \o <<":", SP>> \o v

\* Server::respond, with the order in which header_map.iter() yields the
\* keys.
Respond(status, body, headers, order) ==
    LET status_code    == UnwrapOr(status, 200)
        body_string    == UnwrapOr(body, <<>>)
        header_map     == HeaderMap(body, headers)
        headers_string == Join([i \in 1..Len(order) |->
                                   HeaderLine(order[i], header_map[order[i]])], CRLF)
    IN  HTTP11 \o <<SP>> \o UsizeToString(status_code) \o <<SP>>
          \o StatusMessage(status_code) \o CRLF
          \o headers_string \o CRLF \o CRLF \o body_string

\* respond without headers and without a body: nothing to order.
RespondEmpty(status_code) == Respond(Some(status_code), None, None, <<>>)

\* ------------------------------------- handle_request: parsing (193-296)
GET == <<"G", "E", "T">>
POST == <<"P", "O", "S", "T">>
PUT == <<"P", "U", "T">>
DELETE == <<"D", "E", "L", "E", "T", "E">>
HEAD == <<"H", "E", "A", "D">>
OPTIONS == <<"O", "P", "T", "I", "O", "N", "S">>
TRACE == <<"T", "R", "A", "C", "E">>
CONNECT == <<"C", "O", "N", "N", "E", "C", "T">>

\* enum HttpVerb
HttpVerb == {"GET", "POST", "PUT", "DELETE", "HEAD", "OPTIONS", "TRACE", "CONNECT"}

\* The match on first_line_split[0]: an unknown method is a GET.
ParseVerb(token) ==
    CASE token = GET -> "GET"
      [] token = POST -> "POST"
      [] token = PUT -> "PUT"
      [] token = DELETE -> "DELETE"
      [] token = HEAD -> "HEAD"
      [] token = OPTIONS -> "OPTIONS"
      [] token = TRACE -> "TRACE"
      [] token = CONNECT -> "CONNECT"
      [] OTHER -> "GET"

\* request_str.split("\r\n") of the lossily decoded buffer
RequestLines(stream) == Split(FromUtf8Lossy(stream), CRLF)

\* first_line.split(" ")
FirstLineSplit(stream) == Split(RequestLines(stream)[1], <<SP>>)

\* first_line_split.len() < 3
RequestLineMalformed_TooFewOnly(first_line_split) == Len(first_line_split) < 3

\* first_line_split.len() != 3
RequestLineMalformed(first_line_split) == Len(first_line_split) # 3

\* requested_path.split("/").filter(|s| s.len() > 0)
RequestedPathSplit(requested_path) == NonEmptyOnly(Split(requested_path, <<"/">>))

\* The two early returns of a 200: a path that does not start with '/',
\* and a path without a non-empty segment.
PathShortCircuits(requested_path) ==
    \/ ~StartsWith(requested_path, <<"/">>)
    \/ Len(RequestedPathSplit(requested_path)) = 0

\* One header line: inserted when line.split(":") has exactly two parts.
HeaderInsertSplit(headers, line_split) ==
    IF Len(line_split) = 2
    THEN Insert(headers, ToLowercase(Trim(line_split[1])), Trim(line_split[2]))
    ELSE headers

HeaderInsert(headers, line) == HeaderInsertSplit(headers, Split(line, <<":">>))

\* The while loop over request_lines[i], i from 1 (0-based): it stops at
\* the first empty line, leaving i on it, or at the end of the lines.
RECURSIVE HeaderLoop(_, _, _)
HeaderLoop(request_lines, i, headers) ==
    IF i >= Len(request_lines) THEN [i |-> i, headers |-> headers]
    ELSE IF request_lines[i + 1] = <<>> THEN [i |-> i, headers |-> headers]
    ELSE HeaderLoop(request_lines, i + 1, HeaderInsert(headers, request_lines[i + 1]))

\* The for loop over j: body_start is j + 4 for the first j where the
\* four bytes CR LF CR LF start, 0 when there is none.
BodyStart(request_bin) ==
    LET at == Find(request_bin, CRLF \o CRLF)
    IN  IF at = 0 THEN 0 ELSE (at - 1) + 4

\* headers.get("content-length"), parsed; 0 when missing or unparsable.
ContentLengthOf(headers) ==
    IF content_length \in DOMAIN headers
    THEN UnwrapOr(ParseUsize(headers[content_length]), 0)
    ELSE 0

\* &request_bin[start..end]: Rust panics when end is past the buffer.
SliceInBounds(request_bin, start, end) == start <= end /\ end <= Len(request_bin)

\* The body of a request whose line and path passed: [panic |-> TRUE] when
\* the slice is out of range, the body and its raw bytes otherwise.
BodySlice(stream, body_start, length) ==
    IF ~(body_start > 0) THEN [panic |-> FALSE, body |-> <<>>, body_raw |-> <<>>]
    ELSE IF ~SliceInBounds(stream, body_start, body_start + length)
         THEN [panic |-> TRUE, body |-> <<>>, body_raw |-> <<>>]
    ELSE [panic |-> FALSE,
          body |-> FromUtf8Lossy(SubSeq(stream, body_start + 1, body_start + length)),
          body_raw |-> SubSeq(stream, body_start + 1, body_start + length)]

ParseBody(stream, request_lines, i, headers) ==
    IF ~(i + 1 < Len(request_lines))
    THEN [panic |-> FALSE, body |-> <<>>, body_raw |-> <<>>]
    ELSE BodySlice(stream, BodyStart(stream), ContentLengthOf(headers))

NoRequest == [verb |-> "GET", path |-> <<>>, headers |-> EmptyMap,
              body |-> <<>>, body_raw |-> <<>>]

\* The request after the header loop hl and the body b.
Parsed(verb, requested_path, hl, b) ==
    [outcome |-> IF b.panic THEN "panic" ELSE "parsed",
     request |-> [verb |-> verb, path |-> requested_path, headers |-> hl.headers,
                  body |-> b.body, body_raw |-> b.body_raw]]

ParseAfterHeaders(stream, request_lines, verb, requested_path, hl) ==
    Parsed(verb, requested_path, hl, ParseBody(stream, request_lines, hl.i, hl.headers))

ParseAfterLine(stream, request_lines, first_line_split) ==
    IF Len(request_lines) = 0 \/ RequestLineMalformed(first_line_split)
    THEN [outcome |-> "400", request |-> NoRequest]
    ELSE IF PathShortCircuits(first_line_split[2])
    THEN [outcome |-> "200",
          request |-> [NoRequest EXCEPT !.verb = ParseVerb(first_line_split[1]),
                                        !.path = first_line_split[2]]]
    ELSE ParseAfterHeaders(stream, request_lines, ParseVerb(first_line_split[1]),
                           first_line_split[2], HeaderLoop(request_lines, 1, EmptyMap))

ParseLines(stream, request_lines) ==
    ParseAfterLine(stream, request_lines, Split(request_lines[1], <<SP>>))

\* handle_request up to the routing: what it returns early, or the parsed
\* request. outcome is "400" or "200" (the early returns), "panic" (the
\* body slice is out of range) or "parsed".
Parse(stream) == ParseLines(stream, RequestLines(stream))

\* ------------------------------------- handle_request: routing (298-374)
\* The test of the loop without the comparison of the verbs.
EndpointMatches_AnyVerb(key, verb, requested_path) ==
    \/ StartsWith(key.path, requested_path)
    \/ /\ EndsWith(key.path, <<"*">>)
       /\ StartsWith(requested_path, SubSeq(key.path, 1, Len(key.path) - 1))

\* The test of the loop over the endpoints: the verb is the request's, and
\* the key's path starts with the requested path or is a wildcard whose
\* prefix the requested path starts with.
EndpointMatches(key, verb, requested_path) ==
    /\ key.verb = verb
    /\ \/ StartsWith(key.path, requested_path)
       \/ /\ EndsWith(key.path, <<"*">>)
          /\ StartsWith(requested_path, SubSeq(key.path, 1, Len(key.path) - 1))

\* The first key, in iteration order, that matches; None when none does.
RECURSIVE FirstEndpoint(_, _, _)
FirstEndpoint(order, verb, requested_path) ==
    IF order = <<>> THEN None
    ELSE IF EndpointMatches(Head(order), verb, requested_path) THEN Some(Head(order))
    ELSE FirstEndpoint(Tail(order), verb, requested_path)

\* format!("{}{}", dir, &requested_path[path.len()..])
FilePath(directory, prefix, requested_path) ==
    directory \o From(requested_path, Len(prefix))

\* std::fs::read_to_string: the contents of a file that exists and is
\* valid UTF-8.
ReadToString(files, file_path) ==
    IF file_path \in DOMAIN files /\ \A i \in 1..Len(files[file_path]) : files[file_path][i] # BAD
    THEN Some(files[file_path])
    ELSE None

\* The content type of a file, by what follows its last '.'.
FileType(file_path) ==
    LET parts == Split(file_path, <<".">>)
        last  == parts[Len(parts)]
    IN  CASE last = <<"h", "t", "m", "l">> -> TextHtml
          [] last = <<"c", "s", "s">> -> TextCss
          [] last = <<"j", "s">> -> TextJavascript
          [] last = <<"p", "n", "g">> -> ImagePng
          [] OTHER -> OctetStream

\* verb == HttpVerb::POST
UploadAllowed_AnyBinding(verb, entry) == verb = "POST"

\* verb == HttpVerb::POST && entry.allow_upload
UploadAllowed(verb, entry) == verb = "POST" /\ entry.allow_upload

\* The loop over the static directories, in iteration order: the first
\* binding whose prefix the path starts with and that serves the request (a
\* GET whose file can be read, or a POST to a binding that allows upload).
RECURSIVE FirstStatic(_, _, _, _, _)
FirstStatic(order, dirs, files, verb, requested_path) ==
    IF order = <<>> THEN [kind |-> "none"]
    ELSE
      LET path      == Head(order)
          entry     == dirs[path]
          file_path == FilePath(entry.directory, path, requested_path)
          next      == FirstStatic(Tail(order), dirs, files, verb, requested_path)
      IN  IF ~StartsWith(requested_path, path) THEN next
          ELSE IF verb = "GET"
               THEN IF ReadToString(files, file_path) # None
                    THEN [kind |-> "file", prefix |-> path, file_path |-> file_path,
                          contents |-> ReadToString(files, file_path)[1]]
                    ELSE next
          ELSE IF UploadAllowed(verb, entry)
               THEN [kind |-> "upload", prefix |-> path, file_path |-> file_path]
          ELSE next

\* The files a GET tries to read before FirstStatic settles.
RECURSIVE FilesTried(_, _, _, _, _)
FilesTried(order, dirs, files, verb, requested_path) ==
    IF order = <<>> \/ verb # "GET" THEN {}
    ELSE
      LET path      == Head(order)
          file_path == FilePath(dirs[path].directory, path, requested_path)
          next      == FilesTried(Tail(order), dirs, files, verb, requested_path)
      IN  IF ~StartsWith(requested_path, path) THEN next
          ELSE IF ReadToString(files, file_path) # None THEN {file_path}
          ELSE {file_path} \cup next

\* The routing of a parsed request: a handler, a file to send, a file to
\* write, or nothing (a 404).
Route(eorder, sorder, dirs, files, request) ==
    LET e == FirstEndpoint(eorder, request.verb, request.path)
    IN  IF e # None THEN [kind |-> "handler", key |-> e[1]]
        ELSE FirstStatic(sorder, dirs, files, request.verb, request.path)

\* ---------------------------------------------------------------- state
VARIABLES
    phase,               \* "startup" until Server::listen (61), then "listening"
    endpoints,           \* ServerRegistry.endpoints (174): EndpointKey -> handler
    static_directories,  \* ServerRegistry.static_directories (175): path -> entry
    files,               \* the filesystem (335, 367): file path -> contents
    conn,                \* the handle_socket task of each connection (185)
    respond_args,        \* the arguments of a direct call of Server::respond (132)
    respond_out          \* what that call returned (167)

vars == <<phase, endpoints, static_directories, files, conn, respond_args, respond_out>>

server_vars == <<phase, endpoints, static_directories, files, conn>>

Connections == {1, 2}

\* A connection nobody accepted yet.
IdleConn ==
    [pc |-> "idle", stream |-> <<>>, outcome |-> "", request |-> NoRequest,
     route |-> [kind |-> "none"], eorder |-> <<>>, sorder |-> <<>>,
     touched |-> {}, response |-> None, written |-> <<>>, panic |-> ""]

\* ---------------------------------------------------------------- inputs
\* What startup registers: (verb, path, handler).
EndpointInputs ==
    { <<"GET", <<"/", "e", "c", "h", "o", "/", "*">>, "echo">>,
      <<"GET", <<"/", "e", "*">>, "other">>,
      <<"GET", <<"u", "s", "e", "r">>, "user_agent">>,
      <<"POST", <<"/", "e", "*">>, "other">> }

\* What startup serves: (path, directory, allow_upload).
ServeInputs ==
    { << <<"/", "f">>, <<"d">>, TRUE >>,
      << <<"f">>, <<"d">>, FALSE >>,
      << <<>>, <<"e">>, TRUE >>,
      << <<"/", "f", "/">>, <<"g">>, TRUE >>,
      << <<"/", "f">>, <<>>, TRUE >> }

\* The files on disk when the server starts.
InitialFiles ==
    ( <<"d", "/", "a", ".", "j", "s">> :> <<"o", "k">> )
      @@ ( <<"e", "f", "/", "a">> :> <<"h", "i", "!">> )

H == <<"H">>
RequestLineInputs ==
    { <<>>,
      GET \o <<SP, "/", "e", "c">>,
      GET \o <<SP, "/", "e", "c", SP>> \o H \o <<SP, "x">>,
      GET \o <<SP, "a", SP>> \o H,
      POST \o <<SP, "/", "/", SP>> \o H,
      GET \o <<SP, "/", "e", "c", SP>> \o H,
      GET \o <<SP, "/", "e", "c", "h", "o", "/", "x", SP>> \o H,
      GET \o <<SP, "/", "u", "s", SP>> \o H,
      GET \o <<SP, SP, "/", "e", "c", SP>> \o H,
      GET \o <<SP, "/", "u", "s", "e", "r", SP>> \o H,
      GET \o <<SP, "/", "f", "/", "a", SP>> \o H,
      DELETE \o <<SP, "/", "z", SP>> \o H,
      GET \o <<SP, "/", "z", SP>> \o H,
      GET \o <<SP, "/", "f", "/", "a", ".", "j", "s", SP>> \o H,
      <<"X", SP, "/", "f", "/", "a", SP>> \o H,
      POST \o <<SP, "/", "f", "/", "a", SP>> \o H,
      POST \o <<SP, "/", "e", "c", SP>> \o H,
      PUT \o <<SP, "/", "f", "/", "a", SP>> \o H }

RequestLineWithBodyInputs ==
    { POST \o <<SP, "/", "/", SP>> \o H,
      GET \o <<SP, "/", "e", "c", "h", "o", "/", "x", SP>> \o H,
      POST \o <<SP, "/", "f", "/", "a", SP>> \o H }

HostLine == <<"H", "o", "s", "t", ":", SP, "l", ":", "4">>
UserAgentLine == <<"U", "s", "e", "r", "-", "A", "g", "e", "n", "t", ":", SP, "x", SP>>
LengthLine(n) == ContentLength \o <<":", SP>> \o n

HeaderInputs ==
    { <<>>,
      <<HostLine>>,
      <<UserAgentLine, <<"n", "o">> >>,
      <<LengthLine(<<"2">>)>>,
      <<LengthLine(<<"9", "9">>)>>,
      <<LengthLine(<<"9">>), content_length \o <<":", "1">> >> }

BodyInputs == { <<"h", "i">>, <<BAD, "a", "t", "a">> }

\* The bytes a peer sends: a request line, header lines, the empty line
\* and a body; or a request line alone; or nothing at all.
RequestInputs ==
    { Join(<<l>> \o h, CRLF) \o CRLF \o CRLF \o b :
        l \in RequestLineWithBodyInputs, h \in HeaderInputs, b \in BodyInputs }
    \cup { l \o CRLF \o CRLF : l \in RequestLineInputs }
    \cup RequestLineInputs

\* stream.read into [0u8; MAX_REQUEST_SIZE]: at most MAX_REQUEST_SIZE
\* bytes arrive, the rest of the buffer stays zero.
Buffer(bytes) ==
    [i \in 1..MAX_REQUEST_SIZE |-> IF i <= Len(bytes) THEN bytes[i] ELSE NUL]

\* ----------------------------------------------------- startup (86-130)
\* The path with a leading '/', as register_endpoint and serve store it.
Normalize(path) == IF StartsWith(path, <<"/">>) THEN path ELSE <<"/">> \o path

\* Server::register_endpoint
RegisterEndpoint(verb, path, handler) ==
    /\ phase = "startup"
    /\ Cardinality(DOMAIN endpoints) < MaxEndpoints
    /\ endpoints' = Insert(endpoints, [verb |-> verb, path |-> Normalize(path)], handler)
    /\ UNCHANGED <<phase, static_directories, files, conn, respond_args, respond_out>>

\* Server::serve: an empty directory registers nothing.
Serve(path, directory, allow_upload) ==
    /\ phase = "startup"
    /\ Cardinality(DOMAIN static_directories) < MaxStaticDirectories
    /\ static_directories' =
          IF directory = <<>> THEN static_directories
          ELSE Insert(static_directories, Normalize(path),
                      [directory |-> directory, allow_upload |-> allow_upload])
    /\ UNCHANGED <<phase, endpoints, files, conn, respond_args, respond_out>>

\* Server::listen: the registry is complete.
Listen ==
    /\ phase = "startup"
    /\ phase' = "listening"
    /\ UNCHANGED <<endpoints, static_directories, files, conn, respond_args, respond_out>>

\* ------------------------------------------- one connection (69-76, 185-)
\* listener.accept() and tokio::spawn of handle_socket
Accept(c) ==
    /\ phase = "listening"
    /\ conn[c].pc = "idle"
    /\ conn' = [conn EXCEPT ![c].pc = "read"]
    /\ UNCHANGED <<phase, endpoints, static_directories, files, respond_args, respond_out>>

\* stream.read(&mut buffer).await.unwrap(): the bytes of the peer, or a
\* panic when the read fails.
Read(c, inputs) ==
    /\ conn[c].pc = "read"
    /\ \/ \E bytes \in inputs :
            conn' = [conn EXCEPT ![c].pc = "handle", ![c].stream = Buffer(bytes)]
       \/ conn' = [conn EXCEPT ![c].pc = "panicked", ![c].panic = "read"]
    /\ UNCHANGED <<phase, endpoints, static_directories, files, respond_args, respond_out>>

\* What the handler of an endpoint returns: the registry stores a function
\* pointer, and the string is whatever that function makes of the Request.
HandlerResponse(handler, request) ==
    [by |-> "handler", handler |-> handler,
     request |-> [verb |-> request.verb, path |-> request.path,
                  headers |-> request.headers, body |-> request.body]]

Rendered(bytes) == [by |-> "respond", bytes |-> bytes]

\* The headers of a served file, 348-359.
FileHeaders(file_path, contents) ==
    Insert(Insert(EmptyMap, ContentType, FileType(file_path)),
           ContentLength, UsizeToString(ByteLen(contents)))

\* The task after handle_request parsed p and routed it to r.
Handled(task, p, r, eorder, sorder, tried, horder) ==
    LET base == [task EXCEPT !.outcome = p.outcome, !.request = p.request,
                             !.eorder = eorder, !.sorder = sorder]
    IN  CASE p.outcome = "400" ->
               [base EXCEPT !.pc = "respond",
                            !.response = Some(Rendered(RespondEmpty(400)))]
          [] p.outcome = "200" ->
               [base EXCEPT !.pc = "respond",
                            !.response = Some(Rendered(RespondEmpty(200)))]
          [] p.outcome = "panic" ->
               [base EXCEPT !.pc = "panicked", !.panic = "slice"]
          [] p.outcome = "parsed" /\ r.kind = "handler" ->
               [base EXCEPT !.pc = "respond", !.route = r,
                            !.response = Some(HandlerResponse(endpoints[r.key], p.request))]
          [] p.outcome = "parsed" /\ r.kind = "file" ->
               [base EXCEPT !.pc = "respond", !.route = r, !.touched = tried,
                            !.response = Some(Rendered(
                               Respond(Some(200), Some(r.contents),
                                       Some(FileHeaders(r.file_path, r.contents)), horder)))]
          [] p.outcome = "parsed" /\ r.kind = "upload" ->
               [base EXCEPT !.pc = "create", !.route = r]
          [] p.outcome = "parsed" /\ r.kind = "none" ->
               [base EXCEPT !.pc = "respond", !.route = r, !.touched = tried,
                            !.response = Some(Rendered(RespondEmpty(404)))]

\* The request p under every order in which the two maps can be iterated.
HandleParsed(c, p) ==
    \E eorder \in Orders(DOMAIN endpoints), sorder \in Orders(DOMAIN static_directories),
       horder \in Orders({ContentType, ContentLength}) :
         conn' = [conn EXCEPT ![c] =
                    Handled(conn[c], p,
                            Route(eorder, sorder, static_directories, files, p.request),
                            eorder, sorder,
                            FilesTried(sorder, static_directories, files,
                                       p.request.verb, p.request.path),
                            horder)]

\* self.handle_request(buffer), up to its return or to File::create.
HandleRequest(c) ==
    /\ conn[c].pc = "handle"
    /\ HandleParsed(c, Parse(conn[c].stream))
    /\ UNCHANGED <<phase, endpoints, static_directories, files, respond_args, respond_out>>

\* std::fs::File::create(file_path).unwrap(): the file exists and is empty
\* afterwards, or the task panics.
Create(c) ==
    /\ conn[c].pc = "create"
    /\ \/ /\ files' = Insert(files, conn[c].route.file_path, <<>>)
          /\ conn' = [conn EXCEPT ![c].pc = "write_all",
                                  ![c].touched = @ \cup {conn[c].route.file_path}]
       \/ /\ conn' = [conn EXCEPT ![c].pc = "panicked", ![c].panic = "create"]
          /\ UNCHANGED files
    /\ UNCHANGED <<phase, endpoints, static_directories, respond_args, respond_out>>

\* What a file holds after n bytes of data were written at its start.
Overwrite(old, data, n) == SubSeq(data, 1, n) \o From(old, Min(n, Len(old)))

\* file.write_all(body_raw).unwrap(), the file handle being at offset 0,
\* and the return of the 201; or a panic after a part of the bytes.
WriteAll(c) ==
    /\ conn[c].pc = "write_all"
    /\ LET file_path == conn[c].route.file_path
           body_raw  == conn[c].request.body_raw
       IN  \/ /\ files' = [files EXCEPT ![file_path] = Overwrite(@, body_raw, Len(body_raw))]
              /\ conn' = [conn EXCEPT ![c].pc = "respond",
                                      ![c].response = Some(Rendered(RespondEmpty(201)))]
           \/ \E n \in 0..(Len(body_raw) - 1) :
                /\ files' = [files EXCEPT ![file_path] = Overwrite(@, body_raw, n)]
                /\ conn' = [conn EXCEPT ![c].pc = "panicked", ![c].panic = "write_all"]
    /\ UNCHANGED <<phase, endpoints, static_directories, respond_args, respond_out>>

\* stream.write(response.as_bytes()) and stream.flush(), with a peer that
\* takes the bytes.
WriteResponse(c) ==
    /\ conn[c].pc = "respond"
    /\ conn' = [conn EXCEPT ![c].pc = "done",
                            ![c].written = Append(@, conn[c].response[1])]
    /\ UNCHANGED <<phase, endpoints, static_directories, files, respond_args, respond_out>>

NoCall == [status |-> None, body |-> None, headers |-> None]

Init ==
    /\ phase = "startup"
    /\ endpoints = EmptyMap
    /\ static_directories = EmptyMap
    /\ files = InitialFiles
    /\ conn = [c \in Connections |-> IdleConn]
    /\ respond_args = NoCall
    /\ respond_out = None

\* Startup, then one connection.
Next ==
    \/ \E e \in EndpointInputs : RegisterEndpoint(e[1], e[2], e[3])
    \/ \E s \in ServeInputs : Serve(s[1], s[2], s[3])
    \/ Listen
    \/ Accept(1)
    \/ Read(1, RequestInputs)
    \/ HandleRequest(1)
    \/ Create(1)
    \/ WriteAll(1)
    \/ WriteResponse(1)

Spec == Init /\ [][Next]_vars

\* ------------------------------------- a direct call of Server::respond
CallerHeaders ==
    ( ContentType :> TextHtml ) @@ ( ContentLength :> <<"9">> )
      @@ ( <<"X", "-", "A">> :> <<"1">> )
      @@ ( <<"c", "o", "n", "t", "e", "n", "t", "-", "t", "y", "p", "e">> :> <<"x">> )

\* The arguments of the calls: a status or none, a body or none, headers
\* or none.
RespondInputs ==
    [status : {None} \cup {Some(n) : n \in {200, 201, 400, 401, 403, 404, 500, 65535}},
     body : {None, Some(<<>>), Some(<<"o", "k">>), Some(<<REPL, "1", "2", "3", "4", "5", "6", "7">>)},
     headers : {None} \cup
               {Some([k \in K |-> CallerHeaders[k]]) :
                  K \in {K \in SUBSET DOMAIN CallerHeaders : Cardinality(K) <= MaxCallerHeaders}}]

\* Server::respond(status, body, headers), called by a handler or a test.
RespondCall ==
    /\ respond_out = None
    /\ \E order \in Orders(DOMAIN HeaderMap(respond_args.body, respond_args.headers)) :
         respond_out' = Some(Respond(respond_args.status, respond_args.body,
                                     respond_args.headers, order))
    /\ UNCHANGED <<server_vars, respond_args>>

InitRespond ==
    /\ phase = "startup"
    /\ endpoints = EmptyMap
    /\ static_directories = EmptyMap
    /\ files = InitialFiles
    /\ conn = [c \in Connections |-> IdleConn]
    /\ respond_args \in RespondInputs
    /\ respond_out = None

NextRespond == RespondCall

SpecRespond == InitRespond /\ [][NextRespond]_vars

\* ------------------------------------------------------------- claim C6
\* Reading a rendered response back: the status line, the header lines and
\* the body.
C6_StatusLine(out) == SubSeq(out, 1, Find(out, CRLF) - 1)
C6_Rest(out) == From(out, Find(out, CRLF) + 1)
C6_HeaderBlock(out) == SubSeq(C6_Rest(out), 1, Find(C6_Rest(out), CRLF \o CRLF) - 1)
C6_Body(out) == From(C6_Rest(out), Find(C6_Rest(out), CRLF \o CRLF) + 3)
C6_HeaderLines(out) ==
    IF C6_HeaderBlock(out) = <<>> THEN <<>> ELSE Split(C6_HeaderBlock(out), CRLF)

C6_Reason(code) ==
    IF code = 200 THEN OK ELSE IF code = 201 THEN Created
    ELSE IF code = 400 THEN BadRequest ELSE IF code = 401 THEN Unauthorized
    ELSE IF code = 403 THEN Forbidden ELSE IF code = 404 THEN NotFound ELSE Unknown

\* The header lines the claim asks for: the caller's, each unchanged, and
\* for a non-empty body the default of each of the two that is missing.
C6_ExpectedLines(body, supplied) ==
    {k \o <<":", SP>> \o supplied[k] : k \in DOMAIN supplied}
    \cup (IF body # <<>> /\ ContentType \notin DOMAIN supplied
          THEN {ContentType \o <<":", SP>> \o TextPlain} ELSE {})
    \cup (IF body # <<>> /\ ContentLength \notin DOMAIN supplied
          THEN {ContentLength \o <<":", SP>> \o UsizeToString(ByteLen(body))} ELSE {})

\* C6: every call of Server::respond renders "HTTP/1.1 {code} {reason}",
\* CRLF, the header lines, CRLF CRLF and the body, the reason being
\* "Unknown" outside the table; the header lines are the caller's headers
\* unchanged plus, only for a non-empty body, text/plain and the byte
\* length of the body for whichever of Content-Type and Content-Length the
\* caller did not supply; an empty body adds no header.
C6_RespondHeaders ==
    respond_out # None =>
      LET out      == respond_out[1]
          code     == IF respond_args.status = None THEN 200 ELSE respond_args.status[1]
          body     == IF respond_args.body = None THEN <<>> ELSE respond_args.body[1]
          supplied == IF respond_args.headers = None THEN EmptyMap
                      ELSE respond_args.headers[1]
          lines    == C6_HeaderLines(out)
      IN  /\ C6_StatusLine(out) = HTTP11 \o <<SP>> \o UsizeToString(code) \o <<SP>> \o C6_Reason(code)
          /\ C6_Body(out) = body
          /\ {lines[i] : i \in 1..Len(lines)} = C6_ExpectedLines(body, supplied)
          /\ Len(lines) = Cardinality(C6_ExpectedLines(body, supplied))

\* A call with a body, a Content-Type of the caller's and no Content-Length
\* has returned.
C6_Witness ==
    /\ respond_out # None
    /\ respond_args.body = Some(<<"o", "k">>)
    /\ respond_args.headers # None
    /\ ContentType \in DOMAIN respond_args.headers[1]
    /\ ContentLength \notin DOMAIN respond_args.headers[1]
    /\ respond_args.status = Some(500)

\* ------------------------------------------- what the claims speak about
\* p is a prefix of s, letter by letter.
IsPrefix(p, s) == Len(p) <= Len(s) /\ \A i \in 1..Len(p) : s[i] = p[i]

\* handle_request has run on the buffer of connection c.
Parsing(c) == conn[c].outcome # ""

\* The first line of the buffer: what precedes the first CR LF.
FirstLineOf(stream) ==
    LET text == FromUtf8Lossy(stream)
        ends == {i \in 1..(Len(text) - 1) : text[i] = CR /\ text[i + 1] = LF}
    IN  IF ends = {} THEN text
        ELSE SubSeq(text, 1, (CHOOSE i \in ends : \A j \in ends : i <= j) - 1)

\* The number of tokens single spaces cut a line into.
TokenCount(line) == 1 + Cardinality({i \in 1..Len(line) : line[i] = SP})

Bytes400 == HTTP11 \o <<SP, "4", "0", "0", SP>> \o BadRequest \o CRLF \o CRLF \o CRLF
Bytes404 == HTTP11 \o <<SP, "4", "0", "4", SP>> \o NotFound \o CRLF \o CRLF \o CRLF
Bytes201 == HTTP11 \o <<SP, "2", "0", "1", SP>> \o Created \o CRLF \o CRLF \o CRLF

\* The task of c has the response bytes, on its way to the peer or sent.
Responds(c, bytes) ==
    /\ conn[c].pc \in {"respond", "done"}
    /\ conn[c].response = Some([by |-> "respond", bytes |-> bytes])
    /\ conn[c].pc = "done" => conn[c].written = <<[by |-> "respond", bytes |-> bytes]>>

\* No handler was called and no file was read, created or written.
Untouched(c) ==
    /\ conn[c].route.kind = "none"
    /\ conn[c].touched = {}
    /\ files = InitialFiles

\* ------------------------------------------------------------- claim C3
\* C3: a buffer whose first CR LF line does not split on single spaces
\* into exactly three tokens is answered 400 without a body, and no
\* handler was called and no file read or written.
C3_MalformedIs400 ==
    \A c \in Connections :
      (Parsing(c) /\ TokenCount(FirstLineOf(conn[c].stream)) # 3)
         => (Responds(c, Bytes400) /\ Untouched(c))

\* A request line of four tokens, whose second token an endpoint and a
\* static directory would match, was answered.
C3_Witness ==
    /\ conn[1].pc = "done"
    /\ TokenCount(FirstLineOf(conn[1].stream)) = 4
    /\ \E key \in DOMAIN endpoints : key.verb = "GET" /\ IsPrefix(<<"/", "e", "c">>, key.path)
    /\ <<"/">> \in DOMAIN static_directories

\* ------------------------------------------------------------- claim C4
\* An endpoint of the registry that the request of c matches: its verb is
\* the request's, and its pattern starts with the path or is a wildcard
\* whose prefix the path starts with.
EndpointHit(c) ==
    \E key \in DOMAIN endpoints :
       /\ key.verb = conn[c].request.verb
       /\ \/ IsPrefix(conn[c].request.path, key.path)
          \/ /\ key.path[Len(key.path)] = "*"
             /\ IsPrefix(SubSeq(key.path, 1, Len(key.path) - 1), conn[c].request.path)

\* The static bindings whose prefix the path of c starts with.
StaticHits(c) ==
    {prefix \in DOMAIN static_directories : IsPrefix(prefix, conn[c].request.path)}

\* The path of c starts with '/' and has a segment that is not empty.
HasSegment(c) ==
    /\ conn[c].request.path # <<>>
    /\ conn[c].request.path[1] = "/"
    /\ \E i \in 1..Len(conn[c].request.path) : conn[c].request.path[i] # "/"

ThreeTokens(c) == Parsing(c) /\ TokenCount(FirstLineOf(conn[c].stream)) = 3

\* C4 as stated: a request with a three-token request line that matches no
\* endpoint of its verb and no static prefix is answered 404 without a
\* body, no handler called and no file touched.
C4_Original ==
    \A c \in Connections :
      (ThreeTokens(c) /\ ~EndpointHit(c) /\ StaticHits(c) = {})
         => /\ Untouched(c)
            /\ conn[c].pc \in {"respond", "done"} => Responds(c, Bytes404)

\* C4 as amended: the same for the requests whose path starts with '/' and
\* has a non-empty segment (the others are answered 200).
C4_UnmatchedIs404 ==
    \A c \in Connections :
      (ThreeTokens(c) /\ HasSegment(c) /\ ~EndpointHit(c) /\ StaticHits(c) = {})
         => /\ Untouched(c)
            /\ conn[c].pc \in {"respond", "done"} => Responds(c, Bytes404)

\* A POST of /ec was answered by a server that has an endpoint for GET
\* that /ec matches, and a static directory that /ec is not under.
C4_Witness ==
    /\ conn[1].pc = "done"
    /\ conn[1].request.verb = "POST"
    /\ conn[1].request.path = <<"/", "e", "c">>
    /\ [verb |-> "GET", path |-> <<"/", "e", "*">>] \in DOMAIN endpoints
    /\ <<"/", "f">> \in DOMAIN static_directories
    /\ ~EndpointHit(1)

\* ------------------------------------------------------------- claim C5
\* The file a binding maps the path of c to.
BoundFile(c, prefix) ==
    static_directories[prefix].directory
       \o SubSeq(conn[c].request.path, Len(prefix) + 1, Len(conn[c].request.path))

\* The bindings that match the path of c and allow upload.
UploadHits(c) == {prefix \in StaticHits(c) : static_directories[prefix].allow_upload}

\* A POST with a three-token request line that matches no endpoint and
\* whose path starts with the prefix of a static binding.
UnroutedPost(c) ==
    /\ ThreeTokens(c)
    /\ conn[c].request.verb = "POST"
    /\ ~EndpointHit(c)
    /\ StaticHits(c) # {}

\* The files as they were, but for file_path holding bytes.
FilesWith(file_path, bytes) ==
    [f \in (DOMAIN InitialFiles) \cup {file_path} |->
        IF f = file_path THEN bytes ELSE InitialFiles[f]]

\* C5 as stated: a POST that matches no endpoint and is answered has
\* written its body to the file of every matching binding that allows
\* upload and got 201; a binding that does not allow upload has its file
\* untouched, and with no binding left the answer is 404.
C5_Original ==
    \A c \in Connections :
      (UnroutedPost(c) /\ conn[c].pc = "done")
         => /\ \A prefix \in UploadHits(c) :
                 /\ BoundFile(c, prefix) \in DOMAIN files
                 /\ files[BoundFile(c, prefix)] = conn[c].request.body_raw
                 /\ Responds(c, Bytes201)
            /\ UploadHits(c) = {} => (Responds(c, Bytes404) /\ files = InitialFiles)

\* The first of the bindings in hits, in the order the task iterated.
FirstIterated(c, hits) ==
    LET order == conn[c].sorder
    IN  order[CHOOSE i \in 1..Len(order) :
                 order[i] \in hits /\ \A j \in 1..(i - 1) : order[j] \notin hits]

\* C5 as amended: for a POST whose path has a non-empty segment and that
\* matches no endpoint, only the first matching binding (in the iteration
\* order of the registry) that allows upload is acted on: no other file is
\* ever created or changed, and once the request is answered the answer is
\* 201 without a body and that file holds exactly the body bytes; when no
\* matching binding allows upload no file is created or changed and the
\* answer is 404 without a body.
C5_UploadFrame ==
    \A c \in Connections :
      (UnroutedPost(c) /\ HasSegment(c))
         => IF UploadHits(c) = {}
            THEN /\ files = InitialFiles
                 /\ conn[c].pc \in {"respond", "done"} => Responds(c, Bytes404)
            ELSE LET file_path == BoundFile(c, FirstIterated(c, UploadHits(c)))
                 IN  /\ \A f \in DOMAIN files :
                          f # file_path => (f \in DOMAIN InitialFiles /\ files[f] = InitialFiles[f])
                     /\ conn[c].pc \in {"respond", "done"}
                          => /\ Responds(c, Bytes201)
                             /\ files = FilesWith(file_path, conn[c].request.body_raw)

\* A POST of /f/a with the body "hi" was answered; /f does not allow
\* upload, the root binding does, and the file of the root binding, which
\* held "hi!", holds "hi".
C5_Witness ==
    /\ conn[1].pc = "done"
    /\ UnroutedPost(1)
    /\ conn[1].request.path = <<"/", "f", "/", "a">>
    /\ conn[1].request.body_raw = <<"h", "i">>
    /\ StaticHits(1) = {<<"/">>, <<"/", "f">>}
    /\ UploadHits(1) = {<<"/">>}
    /\ files[<<"e", "f", "/", "a">>] = <<"h", "i">>
    /\ <<"d", "/", "a">> \notin DOMAIN files

\* ------------------------------------------------------------- claim C1
\* A rendered response: "HTTP/1.1", a space, a three-digit code, a space.
WellFormed(response) ==
    /\ response.by = "respond"
    /\ IsPrefix(HTTP11 \o <<SP>>, response.bytes)
    /\ Len(response.bytes) >= 13
    /\ \A i \in 10..12 : \E d \in 1..10 : Digit[d] = response.bytes[i]
    /\ response.bytes[13] = SP

\* C1: once the read of a connection succeeded, its task never aborts
\* before a response is written, whatever the buffer holds and whatever
\* the filesystem answers; a finished task has written exactly one
\* response. (The response of a handler is the handler's own.)
C1_AlwaysResponds ==
    \A c \in Connections :
      /\ conn[c].pc = "panicked" => conn[c].panic = "read"
      /\ conn[c].pc = "done"
           => /\ Len(conn[c].written) = 1
              /\ conn[c].written[1].by = "respond" => WellFormed(conn[c].written[1])

\* ------------------------------------------------------------- claim C2
\* The offset after the first CR LF CR LF of the buffer, 0 without one.
BoundaryOf(stream) ==
    LET at == {i \in 1..(Len(stream) - 3) :
                 /\ stream[i] = CR /\ stream[i + 1] = LF
                 /\ stream[i + 2] = CR /\ stream[i + 3] = LF}
    IN  IF at = {} THEN 0 ELSE (CHOOSE i \in at : \A j \in at : i <= j) + 3

\* The value of a content-length header made of digits, 0 otherwise.
DeclaredLength(headers) ==
    IF content_length \in DOMAIN headers
       /\ headers[content_length] # <<>>
       /\ \A i \in 1..Len(headers[content_length]) :
             \E d \in 1..10 : Digit[d] = headers[content_length][i]
    THEN DecimalValue(headers[content_length])
    ELSE 0

\* C2: for a buffer with a CR LF CR LF boundary whose request line and
\* path were accepted, the body is the first min(content-length, bytes
\* left after the boundary) bytes after the boundary, and extracting it
\* never reads past the buffer.
C2_BodyClamped ==
    \A c \in Connections :
      (Parsing(c) /\ conn[c].outcome \in {"parsed", "panic"}
          /\ BoundaryOf(conn[c].stream) > 0)
         => LET start  == BoundaryOf(conn[c].stream)
                length == Min(DeclaredLength(conn[c].request.headers),
                              Len(conn[c].stream) - start)
            IN  /\ conn[c].outcome # "panic"
                /\ conn[c].request.body_raw = SubSeq(conn[c].stream, start + 1, start + length)

\* ------------------------------------------------------------- claim C7
\* The matching the claim describes: a wildcard pattern matches the paths
\* that start with it less its '*', any other pattern the paths it
\* starts with.
ClaimedMatch(key, verb, path) ==
    /\ key.verb = verb
    /\ IF key.path[Len(key.path)] = "*"
       THEN IsPrefix(SubSeq(key.path, 1, Len(key.path) - 1), path)
       ELSE IsPrefix(path, key.path)

\* C7: a handler is called exactly when some endpoint of the request's
\* verb matches as claimed, and the endpoint whose handler is called
\* matches as claimed; so /echo/* is not chosen for /ec.
C7_WildcardIsPrefixOnly ==
    \A c \in Connections :
      (Parsing(c) /\ conn[c].outcome = "parsed")
         => /\ conn[c].route.kind = "handler"
                 <=> \E key \in DOMAIN endpoints :
                        ClaimedMatch(key, conn[c].request.verb, conn[c].request.path)
            /\ conn[c].route.kind = "handler"
                 => ClaimedMatch(conn[c].route.key, conn[c].request.verb,
                                 conn[c].request.path)

\* ------------------------------------------------------------- claim C8
\* The header lines of a buffer: the lines after the first, up to the
\* first empty one.
RECURSIVE UntilEmpty(_)
UntilEmpty(lines) ==
    IF lines = <<>> \/ Head(lines) = <<>> THEN <<>>
    ELSE <<Head(lines)>> \o UntilEmpty(Tail(lines))

HeaderLinesOf(stream) == UntilEmpty(Tail(Split(FromUtf8Lossy(stream), CRLF)))

FirstColon(line) == CHOOSE i \in 1..Len(line) : line[i] = ":" /\ \A j \in 1..(i - 1) : line[j] # ":"
NameOf(line) == ToLowercase(Trim(SubSeq(line, 1, FirstColon(line) - 1)))
ValueOf(line) == Trim(SubSeq(line, FirstColon(line) + 1, Len(line)))
HasColon(line) == \E i \in 1..Len(line) : line[i] = ":"

\* C8: every header line with a colon gives the request a header named by
\* what precedes the first colon (trimmed, lowercase) whose value is all
\* that follows it (trimmed), later colons included; a later line of the
\* same name replaces it.
C8_SplitOnFirstColon ==
    \A c \in Connections :
      (Parsing(c) /\ conn[c].outcome = "parsed")
         => LET lines == HeaderLinesOf(conn[c].stream)
            IN  \A i \in 1..Len(lines) :
                  (HasColon(lines[i])
                     /\ \A j \in (i + 1)..Len(lines) :
                           HasColon(lines[j]) => NameOf(lines[j]) # NameOf(lines[i]))
                    => /\ NameOf(lines[i]) \in DOMAIN conn[c].request.headers
                       /\ conn[c].request.headers[NameOf(lines[i])] = ValueOf(lines[i])

\* ------------------------------------------------------------ claim C10
\* C10: the routing of a request does not depend on the order in which the
\* two maps of the registry are iterated: under every order the same
\* endpoint or the same static binding is chosen.
C10_RoutingDeterministic ==
    \A c \in Connections :
      (Parsing(c) /\ conn[c].outcome = "parsed" /\ conn[c].pc \in {"respond", "create"})
         => \A eorder \in Orders(DOMAIN endpoints), sorder \in Orders(DOMAIN static_directories) :
               Route(eorder, sorder, static_directories, files, conn[c].request) = conn[c].route

\* ------------------------------------------------------------- claim C9
\* Two connections that upload to the same path.
Upload(length, body) ==
    POST \o <<SP, "/", "f", "/", "a", SP>> \o H \o CRLF
      \o LengthLine(length) \o CRLF \o CRLF \o body

RaceInputs ==
    { Upload(<<"4">>, <<"d", "a", "t", "a">>),
      Upload(<<"2">>, <<"h", "i">>),
      Upload(<<"3">>, <<"x", "y", "z">>) }

\* The server after serve("/f", "d", true) and listen.
InitRace ==
    /\ phase = "listening"
    /\ endpoints = EmptyMap
    /\ static_directories =
          Insert(EmptyMap, <<"/", "f">>, [directory |-> <<"d">>, allow_upload |-> TRUE])
    /\ files = InitialFiles
    /\ conn = [c \in Connections |-> IdleConn]
    /\ respond_args = NoCall
    /\ respond_out = None

\* The tasks of the connections run in parallel.
NextRace ==
    \E c \in Connections :
       \/ Accept(c)
       \/ Read(c, RaceInputs)
       \/ HandleRequest(c)
       \/ Create(c)
       \/ WriteAll(c)
       \/ WriteResponse(c)

SpecRace == InitRace /\ [][NextRace]_vars

\* C9: when two uploads to the same path have both been answered, the
\* file holds exactly the body of one of them.
C9_LastWriterWins ==
    (\A c \in Connections : conn[c].pc = "done" /\ conn[c].route.kind = "upload")
       => \E c \in Connections :
             files[conn[c].route.file_path] = conn[c].request.body_raw
====
